---- MODULE Spec2Model ----
(***************************************************************************)
(* Game of Life with fade trail and stability watchdog:                    *)
(* class GameOfLifeMatrix of                                               *)
(* src/bonus_implementations/circuitPython_slow_but_functional.py.         *)
(*                                                                         *)
(* Bitmaps and the fade buffer are functions over the linear cell index    *)
(* 0 .. width*height-1, as in the source (index = x + y*width).            *)
(* current_bitmap / next_bitmap are references ("b1" or "b2") to the two   *)
(* bitmaps, root_group is the group shown on the display.                  *)
(*                                                                         *)
(* Specifications:                                                         *)
(*   SpecAsShipped  run() as the source has it (handle_stable_state is     *)
(*                  commented out of the loop);                            *)
(*   Spec           the loop with handle_stable_state called after every   *)
(*                  swap, where the comment of run() has it;               *)
(*   SpecRandomize  direct calls of randomize(fraction);                   *)
(*   SpecCheck      direct calls of check_stability(current_pop);          *)
(*   SpecDriver     direct calls of randomize() and handle_stable_state()  *)
(*                  in any order.                                          *)
(***************************************************************************)
EXTENDS Integers, Sequences, FiniteSets, TLC

\* ------------------------------------------------------------ configuration
\* Program constants (module level of the source).
FADE_LEVELS == 8
FADE_DECAY_RATE == 1
STABLE_GENERATIONS == 10
HISTORY_SIZE == 3
\* random.getrandbits(15) returns an integer in 0 .. 2^15 - 1.
RandBitsMax == 32767
\* fraction is modelled in hundredths; run() and the reseed use 0.33.
DefaultFractionPct == 33

\* Bounds of the model.
MaxSide == 4          \* grids with width <= MaxSide and height <= MaxSide
MaxCells == 9         \* ... and width * height <= MaxCells
MaxWatchedCells == 7  \* the same, for the runs with the stability watchdog
MaxDecayRate == 2     \* FADE_DECAY_RATE in 1 .. MaxDecayRate
MaxHistorySize == 3   \* HISTORY_SIZE in 1 .. MaxHistorySize
MaxGeneration == 40   \* cap of the generation counter
MaxDriverWidth == 3   \* one-row grids of the runs with direct calls of
                      \* handle_stable_state: width <= MaxDriverWidth
MaxDriverCalls == 12  \* cap of the generation counter in those runs

VARIABLES
    width, height,          \* display.width, display.height
    fade_levels,            \* FADE_LEVELS as configured
    fade_decay_rate,        \* FADE_DECAY_RATE as configured
    history_size,           \* HISTORY_SIZE as configured
    b1, b2,                 \* the two bitmaps
    current_bitmap,         \* "b1" or "b2"
    next_bitmap,            \* "b1" or "b2"
    root_group,             \* "g1" (shows b1) or "g2" (shows b2)
    fade_buffer,
    population_history,     \* function over 0 .. history_size-1
    stable_count,
    generation,
    pc,                     \* position of the caller: see the actions
    call,                   \* the last completed call: [op, arg]
    verdict,                \* what the last check_stability returned
    reseeded,               \* the last handle_stable_state reseeded
    streak,                 \* observed run of consecutive True verdicts
    filled,                 \* observed pushes since the last reset, counted up
                            \* to history_size
    conway,                 \* classic Life run in lockstep (set of live cells)
    dead_for                \* per cell, generations since it was last alive in
                            \* the classic Life run, counted up to max_fade

config == <<width, height, fade_levels, fade_decay_rate, history_size>>
grid == <<b1, b2, current_bitmap, next_bitmap, root_group, fade_buffer>>
tracking == <<population_history, stable_count, generation>>
observed == <<call, verdict, reseeded, streak, filled, conway, dead_for>>
vars == <<config, grid, tracking, pc, observed>>

\* ------------------------------------------------------------ helpers
size == width * height
Cells == 0 .. (size - 1)
width_minus_1 == width - 1
height_minus_1 == height - 1
max_fade == fade_levels - 1

Max(a, b) == IF a >= b THEN a ELSE b
Min(a, b) == IF a <= b THEN a ELSE b

Bitmap(ref) == IF ref = "b1" THEN b1 ELSE b2
Cur == Bitmap(current_bitmap)
Nxt == Bitmap(next_bitmap)

Zeros(n) == [i \in 0 .. (n - 1) |-> 0]

\* The cells of a bitmap that are fully alive.
AliveCells(bmp) == {i \in Cells : bmp[i] = max_fade}

\* ------------------------------------------------------------ randomize
\* random_threshold = int(fraction * 32767), fraction = pct / 100.
random_threshold(pct) == (pct * RandBitsMax) \div 100

\* Outcomes of random.getrandbits(15) drawn per cell: the two extremes of its
\* range 0 .. 32767. The draw is only ever compared with random_threshold, and
\* the comparison is monotone, so the extremes produce every outcome any draw
\* can produce.
RandBits == {0, RandBitsMax}

\* One cell of randomize: r is the cell's draw.
randomize_cell(r, pct) == IF r < random_threshold(pct) THEN max_fade ELSE 0

\* A faulty randomize: the pattern is written to next_bitmap.
randomize_into_next(pct, rnd) ==
    LET new == [i \in Cells |-> randomize_cell(rnd[i], pct)]
    IN  /\ b1' = IF next_bitmap = "b1" THEN new ELSE b1
        /\ b2' = IF next_bitmap = "b2" THEN new ELSE b2
        /\ fade_buffer' = new

\* A faulty randomize: fade_buffer is left as it was.
randomize_without_fade(pct, rnd) ==
    LET new == [i \in Cells |-> randomize_cell(rnd[i], pct)]
    IN  /\ b1' = IF current_bitmap = "b1" THEN new ELSE b1
        /\ b2' = IF current_bitmap = "b2" THEN new ELSE b2
        /\ fade_buffer' = fade_buffer

\* randomize(fraction): writes current_bitmap and fade_buffer, cell by cell.
randomize(pct, rnd) ==
    LET new == [i \in Cells |-> randomize_cell(rnd[i], pct)]
    IN  /\ b1' = IF current_bitmap = "b1" THEN new ELSE b1
        /\ b2' = IF current_bitmap = "b2" THEN new ELSE b2
        /\ fade_buffer' = new

\* ------------------------------------------------------------ apply_life_rule_with_fade
\* Wrapped coordinates, as the branches of the source compute them.
ym1_offset(y) == IF y = 0 THEN height_minus_1 * width ELSE (y - 1) * width
yp1_offset(y) == IF y = height_minus_1 THEN 0 ELSE (y + 1) * width
\* x_minus_1 starts each row at width_minus_1 and is set to x after each cell.
x_minus_1(x) == IF x = 0 THEN width_minus_1 ELSE x - 1
\* A faulty x_plus_1: the last column clamps instead of wrapping.
x_plus_1_clamped(x) == IF x = width_minus_1 THEN x ELSE x + 1

x_plus_1(x) == IF x = width_minus_1 THEN 0 ELSE x + 1

\* The eight indices read for cell (x, y), in the order of the source.
neighbor_indices(x, y) ==
    << x_minus_1(x) + ym1_offset(y), x + ym1_offset(y), x_plus_1(x) + ym1_offset(y),
       x_minus_1(x) + y * width,                        x_plus_1(x) + y * width,
       x_minus_1(x) + yp1_offset(y), x + yp1_offset(y), x_plus_1(x) + yp1_offset(y) >>

\* A faulty neighbors: fading cells counted as alive.
neighbors_counting_fading(current, x, y) ==
    LET idx == neighbor_indices(x, y)
    IN  Cardinality({k \in 1 .. 8 : current[idx[k]] > 0})

\* neighbors: one increment per read that finds a fully alive cell.
neighbors(current, x, y) ==
    LET idx == neighbor_indices(x, y)
    IN  Cardinality({k \in 1 .. 8 : current[idx[k]] = max_fade})

\* A faulty lives: survival on two neighbours granted to dead cells too.
lives_ignoring_cell(n, cell_alive) == (n = 3) \/ (n = 2)

\* The condition of Conway's rule.
lives(n, cell_alive) == (n = 3) \/ (n = 2 /\ cell_alive)

\* A faulty decay: one level per generation whatever the decay rate.
decay_by_one(f) == IF f > 0 THEN f - 1 ELSE f

\* A faulty decay: no clamp at 0.
decay_unclamped(f) == f - fade_decay_rate

\* A faulty decay: a dead cell goes dark at once and leaves no trail.
decay_at_once(f) == 0

\* The fade of a cell that dies or stays dead.
decay(f) == IF f > 0 THEN Max(0, f - fade_decay_rate) ELSE f

\* One iteration of the inner loop on the buffers mem = [b1, b2, fade].
apply_cell(mem, i) ==
    LET x == i % width
        y == i \div width
        current == mem[current_bitmap]
        n == neighbors(current, x, y)
        cell_alive == current[i] = max_fade
    IN  IF lives(n, cell_alive)
        THEN [mem EXCEPT ![next_bitmap][i] = max_fade, !.fade[i] = max_fade]
        ELSE [mem EXCEPT ![next_bitmap][i] = decay(mem.fade[i]),
                         !.fade[i] = decay(mem.fade[i])]

\* The two nested loops: cells in the order y * width + x, from cell i on.
RECURSIVE apply_from(_, _)
apply_from(mem, i) ==
    IF i >= size THEN mem ELSE apply_from(apply_cell(mem, i), i + 1)

apply_life_rule_with_fade ==
    LET out == apply_from([b1 |-> b1, b2 |-> b2, fade |-> fade_buffer], 0)
    IN  /\ b1' = out.b1
        /\ b2' = out.b2
        /\ fade_buffer' = out.fade

\* ------------------------------------------------------------ classic Life
\* Conway's Life on the torus, on sets of cells: the reference the fade version
\* is compared with.
Offsets == {d \in {-1, 0, 1} \X {-1, 0, 1} : d # <<0, 0>>}
Wrapped(x, y, d) == ((y + d[2]) % height) * width + ((x + d[1]) % width)
ConwayNeighbours(S, i) ==
    Cardinality({d \in Offsets : Wrapped(i % width, i \div width, d) \in S})
ConwayStep(S) ==
    {i \in Cells : \/ ConwayNeighbours(S, i) = 3
                   \/ (i \in S /\ ConwayNeighbours(S, i) = 2)}

\* Generations since each cell was last alive: 0 for the live cells S, one more
\* than before for the others, counted up to max_fade; a cell that was never
\* alive since the last randomize counts as dead for max_fade generations.
DeadFor(d, S) == [i \in Cells |-> IF i \in S THEN 0 ELSE Min(d[i] + 1, max_fade)]
NeverAlive(S) == [i \in Cells |-> IF i \in S THEN 0 ELSE max_fade]

\* ------------------------------------------------------------ stability tracking
\* The loop of count_population from cell i on: one increment per cell of
\* current_bitmap at max_fade.
RECURSIVE count_from(_, _)
count_from(i, count) ==
    IF i >= size
    THEN count
    ELSE count_from(i + 1, IF Cur[i] = max_fade THEN count + 1 ELSE count)

\* A faulty count_population: every lit cell is counted, fading ones included.
count_population_lit == Cardinality({i \in Cells : Cur[i] > 0})

\* count_population: "Count fully alive cells".
count_population == count_from(0, 0)

\* A faulty shift_history: the loop runs upwards, so the newest entry is
\* copied all the way down.
shift_history_ascending(h, i) == [j \in DOMAIN h |-> h[0]]

\* "Shift history": for i in range(HISTORY_SIZE - 1, 0, -1): h[i] = h[i - 1].
RECURSIVE shift_history(_, _)
shift_history(h, i) ==
    IF i <= 0 THEN h ELSE shift_history([h EXCEPT ![i] = h[i - 1]], i - 1)

\* The window after the shift and the store of current_pop at index 0.
push_history(h, current_pop) ==
    [shift_history(h, history_size - 1) EXCEPT ![0] = current_pop]

RECURSIVE min_from(_, _)
min_from(h, i) ==
    IF i = 0 THEN h[0]
    ELSE LET m == min_from(h, i - 1) IN IF h[i] < m THEN h[i] ELSE m
RECURSIVE max_from(_, _)
max_from(h, i) ==
    IF i = 0 THEN h[0]
    ELSE LET m == max_from(h, i - 1) IN IF h[i] > m THEN h[i] ELSE m
min_val(h) == min_from(h, history_size - 1)
max_val(h) == max_from(h, history_size - 1)
unique_values(h) == {h[i] : i \in DOMAIN h}

\* A faulty small_oscillation: a spread of 3 tolerated.
small_oscillation_wide(h) ==
    Cardinality(unique_values(h)) <= 3 /\ max_val(h) - min_val(h) <= 3

\* A faulty small_oscillation: a spread of 2 no longer tolerated.
small_oscillation_strict(h) ==
    Cardinality(unique_values(h)) <= 3 /\ max_val(h) - min_val(h) < 2

\* The tolerated spread of the "small oscillations" test (max_val - min_val <= 2).
small_oscillation(h) ==
    Cardinality(unique_values(h)) <= 3 /\ max_val(h) - min_val(h) <= 2

\* The tests of check_stability on the window h after the push. Reading
\* population_history[1] of a one-entry list raises IndexError.
stability_tests(h) ==
    IF 1 \notin DOMAIN h THEN "IndexError"
    ELSE IF h[0] = h[1] THEN "True"
    ELSE IF history_size >= 3 /\ h[0] = h[2] /\ h[0] # h[1] THEN "True"
    ELSE IF history_size >= 3 /\ small_oscillation(h) THEN "True"
    ELSE "False"

\* check_stability(current_pop): the new window and what the call returns.
check_stability(current_pop) ==
    LET h == push_history(population_history, current_pop)
    IN  [history |-> h, result |-> stability_tests(h)]

\* A faulty stable_count_after: an unstable generation does not reset the count.
stable_count_never_reset(result, count) == IF result = "True" THEN count ELSE count - 1

\* stable_count after the verdict, count being stable_count + 1:
\* "self.stable_count += 1" or "else: self.stable_count = 0".
stable_count_after(result, count) == IF result = "True" THEN count ELSE 0

\* A faulty reset_due: the reset comes one stable generation late.
reset_due_late(count) == count > STABLE_GENERATIONS

\* The test that triggers the reset.
reset_due(count) == count >= STABLE_GENERATIONS

\* ------------------------------------------------------------ actions
Fractions == {0, DefaultFractionPct, 100}

\* The bitmap randomize has just written (current_bitmap is not retargeted).
RandomizedBitmap == IF current_bitmap = "b1" THEN b1' ELSE b2'

\* A direct call randomize(fraction) before run().
CallRandomize(pct) ==
    /\ pc = "start"
    /\ \E rnd \in [Cells -> RandBits] :
          /\ randomize(pct, rnd)
          /\ conway' = AliveCells(RandomizedBitmap)
          /\ dead_for' = NeverAlive(AliveCells(RandomizedBitmap))
    /\ pc' = "called"
    /\ call' = [op |-> "randomize", arg |-> pct]
    /\ UNCHANGED <<config, current_bitmap, next_bitmap, root_group, tracking,
                   verdict, reseeded, streak, filled>>

\* run(): self.randomize(0.33), then the loop is entered.
RunRandomize ==
    /\ pc = "start"
    /\ \E rnd \in [Cells -> RandBits] :
          /\ randomize(DefaultFractionPct, rnd)
          /\ conway' = AliveCells(RandomizedBitmap)
          /\ dead_for' = NeverAlive(AliveCells(RandomizedBitmap))
    /\ pc' = "apply"
    /\ call' = [op |-> "randomize", arg |-> DefaultFractionPct]
    /\ UNCHANGED <<config, current_bitmap, next_bitmap, root_group, tracking,
                   verdict, reseeded, streak, filled>>

\* run(): self.apply_life_rule_with_fade(). Classic Life takes its step too.
ApplyLifeRule ==
    /\ pc = "apply"
    /\ apply_life_rule_with_fade
    /\ conway' = ConwayStep(conway)
    /\ dead_for' = DeadFor(dead_for, ConwayStep(conway))
    /\ pc' = "swap"
    /\ call' = [op |-> "apply_life_rule_with_fade", arg |-> 0]
    /\ UNCHANGED <<config, current_bitmap, next_bitmap, root_group, tracking,
                   verdict, reseeded, streak, filled>>

\* A faulty SwapBuffers: the display keeps showing the same group.
SwapBuffersKeepingGroup ==
    /\ pc = "swap"
    /\ current_bitmap' = next_bitmap
    /\ next_bitmap' = current_bitmap
    /\ pc' = "stable"
    /\ call' = [op |-> "swap", arg |-> 0]
    /\ UNCHANGED <<config, b1, b2, fade_buffer, root_group, tracking,
                   verdict, reseeded, streak, filled, conway, dead_for>>

\* run(): "Swap buffers" and the switch of root_group.
SwapBuffers ==
    /\ pc = "swap"
    /\ current_bitmap' = next_bitmap
    /\ next_bitmap' = current_bitmap
    /\ root_group' = IF root_group = "g1" THEN "g2" ELSE "g1"
    /\ pc' = "stable"
    /\ call' = [op |-> "swap", arg |-> 0]
    /\ UNCHANGED <<config, b1, b2, fade_buffer, tracking,
                   verdict, reseeded, streak, filled, conway, dead_for>>

\* run() as the source has it: the call of handle_stable_state is a comment,
\* the loop goes straight back to apply_life_rule_with_fade.
SkipStableState ==
    /\ pc = "stable"
    /\ pc' = "apply"
    /\ call' = [op |-> "skip", arg |-> 0]
    /\ UNCHANGED <<config, grid, tracking, verdict, reseeded, streak, filled, conway, dead_for>>

\* handle_stable_state(); the caller is at return_pc once it has returned.
handle_stable_state(return_pc) ==
    /\ LET current_pop == count_population
           chk == check_stability(current_pop)
           count == stable_count + 1
       IN  /\ verdict' = chk.result
           /\ call' = [op |-> "handle_stable_state", arg |-> current_pop]
           /\ streak' = IF chk.result = "True"
                         THEN (IF reseeded THEN 0 ELSE streak) + 1
                         ELSE 0
           /\ filled' = IF chk.result = "True" /\ reset_due(count)
                         THEN 0
                         ELSE Min(filled + 1, history_size)
           /\ CASE chk.result = "IndexError" ->
                    \* the exception leaves handle_stable_state and run()
                    /\ population_history' = chk.history
                    /\ pc' = "crashed"
                    /\ reseeded' = FALSE
                    /\ UNCHANGED <<b1, b2, fade_buffer, stable_count, generation, conway, dead_for>>
                [] chk.result = "True" /\ reset_due(count) ->
                    /\ \E rnd \in [Cells -> RandBits] :
                          /\ randomize(DefaultFractionPct, rnd)
                          /\ conway' = AliveCells(RandomizedBitmap)
                          /\ dead_for' = NeverAlive(AliveCells(RandomizedBitmap))
                    /\ population_history' = Zeros(history_size)
                    /\ stable_count' = 0
                    /\ generation' = 0 + 1
                    /\ reseeded' = TRUE
                    /\ pc' = return_pc
                [] chk.result = "True" /\ ~reset_due(count) ->
                    /\ population_history' = chk.history
                    /\ stable_count' = stable_count_after(chk.result, count)
                    /\ generation' = generation + 1
                    /\ reseeded' = FALSE
                    /\ pc' = return_pc
                    /\ UNCHANGED <<b1, b2, fade_buffer, conway, dead_for>>
                [] chk.result = "False" ->
                    /\ population_history' = chk.history
                    /\ stable_count' = stable_count_after(chk.result, count)
                    /\ generation' = generation + 1
                    /\ reseeded' = FALSE
                    /\ pc' = return_pc
                    /\ UNCHANGED <<b1, b2, fade_buffer, conway, dead_for>>
    /\ UNCHANGED <<config, current_bitmap, next_bitmap, root_group>>

\* handle_stable_state(), called where the comment of run() has it.
HandleStableState ==
    /\ pc = "stable"
    /\ generation < MaxGeneration
    /\ handle_stable_state("apply")

\* A direct call randomize() (fraction defaults to 0.33) between two calls of
\* handle_stable_state.
DriverRandomize ==
    /\ pc = "start"
    /\ \E rnd \in [Cells -> RandBits] :
          /\ randomize(DefaultFractionPct, rnd)
          /\ conway' = AliveCells(RandomizedBitmap)
          /\ dead_for' = NeverAlive(AliveCells(RandomizedBitmap))
    /\ call' = [op |-> "randomize", arg |-> DefaultFractionPct]
    /\ UNCHANGED <<config, current_bitmap, next_bitmap, root_group, tracking, pc,
                   verdict, reseeded, streak, filled>>

\* A direct call handle_stable_state() on whatever grid the object holds.
DriverHandleStableState ==
    /\ pc = "start"
    /\ generation < MaxDriverCalls
    /\ handle_stable_state("start")

\* A direct call check_stability(current_pop), current_pop a possible population.
CallCheckStability(current_pop) ==
    /\ pc = "start"
    /\ LET chk == check_stability(current_pop)
       IN  /\ population_history' = chk.history
           /\ verdict' = chk.result
           /\ pc' = IF chk.result = "IndexError" THEN "crashed" ELSE pc
    /\ call' = [op |-> "check_stability", arg |-> current_pop]
    /\ filled' = Min(filled + 1, history_size)
    /\ UNCHANGED <<config, grid, stable_count, generation, reseeded, streak, conway, dead_for>>

\* ------------------------------------------------------------ specifications
\* The state after __init__, for a configuration drawn from the given sets.
Dimensions(cells) == {d \in (1 .. MaxSide) \X (1 .. MaxSide) : d[1] * d[2] <= cells}
FadeLevelChoices == {2, FADE_LEVELS}

InitOf(dims, levels, rates, sizes) ==
    /\ \E d \in dims : width = d[1] /\ height = d[2]
    /\ fade_levels \in levels
    /\ fade_decay_rate \in rates
    /\ history_size \in sizes
    /\ b1 = Zeros(size)
    /\ b2 = Zeros(size)
    /\ current_bitmap = "b1"
    /\ next_bitmap = "b2"
    /\ root_group = "g1"
    /\ fade_buffer = Zeros(size)
    /\ population_history = Zeros(history_size)
    /\ stable_count = 0
    /\ generation = 0
    /\ pc = "start"
    /\ call = [op |-> "__init__", arg |-> 0]
    /\ verdict = "none"
    /\ reseeded = FALSE
    /\ streak = 0
    /\ filled = 0
    /\ conway = {}
    /\ dead_for = NeverAlive({})

\* The loop of run() with handle_stable_state called every generation.
Init == InitOf(Dimensions(MaxWatchedCells), FadeLevelChoices, 1 .. MaxDecayRate,
               {HISTORY_SIZE})
Next ==
    \/ RunRandomize
    \/ ApplyLifeRule
    \/ SwapBuffers
    \/ HandleStableState
Spec == Init /\ [][Next]_vars

\* run() as the source has it.
InitAsShipped == InitOf(Dimensions(MaxCells), FadeLevelChoices, 1 .. MaxDecayRate,
                        {HISTORY_SIZE})
NextAsShipped ==
    \/ RunRandomize
    \/ ApplyLifeRule
    \/ SwapBuffers
    \/ SkipStableState
SpecAsShipped == InitAsShipped /\ [][NextAsShipped]_vars

\* Direct calls of randomize(fraction) on the constructed object.
InitRandomize == InitOf(Dimensions(MaxCells), FadeLevelChoices, {FADE_DECAY_RATE},
                        {HISTORY_SIZE})
NextRandomize == \E pct \in Fractions : CallRandomize(pct)
SpecRandomize == InitRandomize /\ [][NextRandomize]_vars

\* Direct calls of randomize() and handle_stable_state() in any order, on
\* one-row grids.
InitDriver == InitOf((1 .. MaxDriverWidth) \X {1}, {FADE_LEVELS}, {FADE_DECAY_RATE},
                     {HISTORY_SIZE})
NextDriver ==
    \/ DriverRandomize
    \/ DriverHandleStableState
SpecDriver == InitDriver /\ [][NextDriver]_vars

\* Direct calls of check_stability, for every window length.
InitCheck == InitOf(Dimensions(MaxCells), {FADE_LEVELS}, {FADE_DECAY_RATE},
                    1 .. MaxHistorySize)
NextCheck == \E p \in 0 .. size : CallCheckStability(p)
SpecCheck == InitCheck /\ [][NextCheck]_vars

\* ------------------------------------------------------------ claims
\* The rule as the claims state it: on the max-level cells of bmp, with the
\* neighbourhood taken modulo the dimensions.
AliveNext(bmp, i) ==
    LET n == ConwayNeighbours(AliveCells(bmp), i)
    IN  n = 3 \/ (n = 2 /\ bmp[i] = max_fade)

\* C1: after apply_life_rule_with_fade (and before the swap, while
\* current_bitmap still holds the generation it read), a cell of next_bitmap is
\* at the max level exactly if it had 3 max-level neighbours, or 2 and was at
\* the max level itself; its fade_buffer entry is then at the max level too.
C1_LifeRule ==
    pc = "swap" =>
        \A i \in Cells :
            /\ (Nxt[i] = max_fade) <=> AliveNext(Cur, i)
            /\ (Nxt[i] = max_fade) => (fade_buffer[i] = max_fade)

\* C1 witness: one generation with a birth, a survival on two neighbours and a
\* death.
C1_Witness ==
    /\ pc = "swap"
    /\ \E i \in Cells : Cur[i] # max_fade /\ Nxt[i] = max_fade
    /\ \E i \in Cells : /\ Cur[i] = max_fade /\ Nxt[i] = max_fade
                         /\ ConwayNeighbours(AliveCells(Cur), i) = 2
    /\ \E i \in Cells : Cur[i] = max_fade /\ Nxt[i] # max_fade

\* C2: for every cell, the eight indices apply_life_rule_with_fade reads lie in
\* 0 .. width*height-1, and the count it computes is the number of offsets
\* (dx, dy) # (0, 0) whose cell ((y+dy) mod height, (x+dx) mod width) is at the
\* max level.
C2_ToroidalNeighbours ==
    \A i \in Cells :
        LET x == i % width
            y == i \div width
        IN  /\ \A k \in 1 .. 8 : neighbor_indices(x, y)[k] \in Cells
            /\ neighbors(Cur, x, y) =
                   Cardinality({d \in Offsets : Cur[Wrapped(x, y, d)] = max_fade})

\* C2 witness: the 3x3 grid with only (0, 0) alive has gone through
\* apply_life_rule_with_fade, and cell (2, 2) counted one neighbour.
C2_Witness ==
    /\ pc = "swap"
    /\ width = 3 /\ height = 3
    /\ AliveCells(Cur) = {0}
    /\ neighbors(Cur, 2, 2) = 1

\* C3: after any number of generations the max-level cells of the newest
\* bitmap are the classic Life iterate of the max-level cells randomize left,
\* whatever the fade levels and the decay rate.
C3_FadeIsCosmetic ==
    AliveCells(IF pc = "swap" THEN Nxt ELSE Cur) = conway

\* C3 witness: at least two generations in, the pattern still lives, has just
\* changed, and a trail two steps old is on the bitmap.
C3_Witness ==
    /\ pc = "stable"
    /\ conway # {}
    /\ conway # AliveCells(Nxt)
    /\ max_fade - 2 * fade_decay_rate > 0
    /\ \E i \in Cells : Cur[i] = max_fade - 2 * fade_decay_rate

\* C4: in apply_life_rule_with_fade every cell that is not alive in the next
\* generation gets fade_buffer = max(0, old fade_buffer - FADE_DECAY_RATE),
\* next_bitmap gets that value, and the fade value does not increase.
C4_Decay ==
    [][(pc = "apply" /\ pc' = "swap") =>
          \A i \in Cells :
              ~AliveNext(Cur, i) =>
                  /\ fade_buffer'[i] = Max(0, fade_buffer[i] - fade_decay_rate)
                  /\ Nxt'[i] = fade_buffer'[i]
                  /\ fade_buffer'[i] <= fade_buffer[i]]_vars

\* C4 witness: a generation in which a max-level cell has died and a trail has
\* been clamped at 0 by a decay rate larger than what was left of it.
C4_Witness ==
    /\ pc = "swap"
    /\ fade_decay_rate = 2
    /\ \E i \in Cells : Cur[i] = max_fade /\ Nxt[i] = max_fade - fade_decay_rate
    /\ \E i \in Cells : Cur[i] = 1 /\ Nxt[i] = 0

\* C5: every cell of b1, b2 and fade_buffer holds an integer in
\* 0 .. FADE_LEVELS-1, in every state reached by randomize, generations, swaps
\* and reseeds.
C5_LevelsInRange ==
    \A i \in Cells :
        /\ b1[i] \in 0 .. max_fade
        /\ b2[i] \in 0 .. max_fade
        /\ fade_buffer[i] \in 0 .. max_fade

\* C5 witness: the first generation after a reseed has left a trail that is
\* neither dead nor alive, with a decay rate that does not divide the levels.
C5_Witness ==
    /\ reseeded
    /\ pc = "swap"
    /\ fade_decay_rate = 2
    /\ fade_levels = FADE_LEVELS
    /\ \E i \in Cells : 0 < fade_buffer[i] /\ fade_buffer[i] < max_fade
    /\ \E i \in Cells : 0 < Nxt[i] /\ Nxt[i] < max_fade

\* C6: the last handle_stable_state call reseeded exactly if it was the
\* STABLE_GENERATIONS-th consecutive call with a True verdict (counted since
\* the previous reseed): none of the first nine, the tenth.
C6_ReseedOnTenth ==
    /\ streak <= STABLE_GENERATIONS
    /\ reseeded <=> (streak = STABLE_GENERATIONS)

\* C6 witness: the tenth consecutive stable call has reseeded.
C6_Witness ==
    /\ call.op = "handle_stable_state"
    /\ reseeded
    /\ streak = 10

\* C7 (as claimed): when the handle_stable_state call that reseeds has
\* returned, generation, stable_count and every history entry are 0.
C7_ResetAfterReseed ==
    (pc = "apply" /\ call.op = "handle_stable_state" /\ reseeded) =>
        /\ generation = 0
        /\ stable_count = 0
        /\ \A i \in DOMAIN population_history : population_history[i] = 0

\* C8 (as claimed): once an iteration of the run loop is complete, the
\* stability check has run on the population of the new current bitmap: a
\* verdict exists, and the population is at the head of the history unless the
\* call reseeded.
C8_LoopRunsStabilityCheck ==
    (pc = "apply" /\ call.op # "randomize") =>
        /\ verdict \in {"True", "False"}
        /\ reseeded \/ population_history[0] = count_population

\* C9 (as claimed): randomize(0.0) leaves every cell of current_bitmap at 0,
\* randomize(1.0) leaves every cell at the max level, whatever the draws.
C9_RandomizeExtremes ==
    /\ (call.op = "randomize" /\ call.arg = 0) => \A i \in Cells : Cur[i] = 0
    /\ (call.op = "randomize" /\ call.arg = 100) =>
           \A i \in Cells : Cur[i] = max_fade

\* The verdict as the claim states it, on the window h.
ClaimedStable(h) ==
    \/ h[0] = h[1]
    \/ (history_size >= 3 /\ h[0] = h[2] /\ h[0] # h[1])
    \/ /\ history_size >= 3
       /\ Cardinality({h[i] : i \in DOMAIN h}) <= 3
       /\ \A i, j \in DOMAIN h : h[i] - h[j] <= 2

\* C10: whenever check_stability returns, it returns True exactly if the
\* window after the push has h[0] = h[1], or (length >= 3) h[0] = h[2] # h[1],
\* or (length >= 3) at most 3 distinct values with max - min <= 2.
C10_Verdict ==
    (call.op = "check_stability" /\ verdict \in {"True", "False"}) =>
        ((verdict = "True") <=> ClaimedStable(population_history))

\* C10 witness: the window [5, 7, 9] has been judged not stable.
C10_Witness ==
    /\ call.op = "check_stability"
    /\ history_size = 3
    /\ population_history = (0 :> 5 @@ 1 :> 7 @@ 2 :> 9)
    /\ verdict = "False"

\* A step that is a completed (or crashed) call of handle_stable_state: every
\* step records the call it is, and no such call leaves the state unchanged.
HandleStep == call'.op = "handle_stable_state"

\* C11: after a handle_stable_state call that does not reseed, stable_count is
\* the number of consecutive True verdicts up to and including this call
\* (since the last reseed); a False verdict sets it to 0, pushes the population
\* on the history as usual, leaves the grid alone and lets the caller go on.
C11_StableCount ==
    [][HandleStep =>
          /\ ~reseeded' => stable_count' = streak'
          /\ (verdict' = "False") =>
                /\ stable_count' = 0
                /\ ~reseeded'
                /\ grid' = grid
                /\ pc' # "crashed"
                /\ population_history'[0] = count_population
                /\ \A i \in 1 .. (history_size - 1) :
                       population_history'[i] = population_history[i - 1]]_vars

\* C11 witness: a False verdict has interrupted a run of True verdicts (the
\* window before this call was static, on counts that had really been pushed),
\* and stable_count is back at 0.
C11_Witness ==
    /\ call.op = "handle_stable_state"
    /\ verdict = "False"
    /\ stable_count = 0
    /\ generation >= 4
    /\ population_history[1] = population_history[2]

\* A step that is a direct call of randomize.
RandomizeStep == call'.op = "randomize"

\* C12: randomize leaves every cell of current_bitmap at 0 or at the max
\* level, fade_buffer equal to it cell by cell, and next_bitmap,
\* population_history, stable_count and generation as they were.
C12_RandomizeFrame ==
    [][RandomizeStep =>
          /\ \A i \in Cells : /\ Cur'[i] \in {0, max_fade}
                               /\ fade_buffer'[i] = Cur'[i]
          /\ current_bitmap' = current_bitmap
          /\ next_bitmap' = next_bitmap
          /\ Nxt' = Nxt
          /\ population_history' = population_history
          /\ stable_count' = stable_count
          /\ generation' = generation]_vars

\* C12 witness: randomize has been called on an object whose tracking state
\* is not the initial one, and has left a mixed pattern.
C12_Witness ==
    /\ call.op = "randomize"
    /\ stable_count >= 2
    /\ generation >= 3
    /\ population_history[0] # 0
    /\ \E i \in Cells : Cur[i] = max_fade
    /\ \E i \in Cells : Cur[i] = 0

\* The two references name the two bitmaps, and the display shows the group
\* of current_bitmap (g1 holds b1, g2 holds b2).
DoubleBuffered ==
    /\ {current_bitmap, next_bitmap} = {"b1", "b2"}
    /\ root_group = IF current_bitmap = "b1" THEN "g1" ELSE "g2"

\* C13: at every boundary of a loop iteration current_bitmap and next_bitmap
\* are the two distinct bitmaps and the display shows current_bitmap; the
\* roles change only in the swap that follows a complete pass of
\* apply_life_rule_with_fade (every cell of next_bitmap then holds what the
\* pass stored for it); the pass leaves current_bitmap as it was.
C13_DoubleBuffering ==
    [][/\ (pc' \in {"apply", "stable"}) => DoubleBuffered'
       /\ (current_bitmap' # current_bitmap \/ next_bitmap' # next_bitmap) =>
             /\ pc = "swap"
             /\ call.op = "apply_life_rule_with_fade"
             /\ \A i \in Cells : Nxt[i] = fade_buffer[i]
       /\ (pc = "apply" /\ pc' = "swap") =>
             /\ Cur' = Cur
             /\ current_bitmap' = current_bitmap
             /\ next_bitmap' = next_bitmap
             /\ root_group' = root_group]_vars

\* C13 witness: after the second swap b1 is current again, shown by g1, and
\* the two bitmaps hold different generations.
C13_Witness ==
    /\ pc = "stable"
    /\ call.op = "swap"
    /\ current_bitmap = "b1"
    /\ root_group = "g1"
    /\ AliveCells(Cur) # {}
    /\ Cur # Nxt

\* A step that is a direct call of check_stability.
CheckStep == call'.op = "check_stability"

\* C14 (as claimed): for every HISTORY_SIZE >= 1 a call of check_stability
\* returns a boolean, with no access outside 0 .. HISTORY_SIZE-1.
C14_CheckCompletes ==
    (call.op = "check_stability") =>
        /\ verdict \in {"True", "False"}
        /\ pc # "crashed"

\* C15: the push of check_stability(p) keeps the window at HISTORY_SIZE
\* entries, stores p at index 0 and moves every older entry one place up, the
\* oldest being dropped; so the entries beyond the number of pushes made since
\* the reset are still 0.
C15_HistoryPush ==
    [][CheckStep =>
          /\ DOMAIN population_history' = 0 .. (history_size - 1)
          /\ population_history'[0] = call'.arg
          /\ \A i \in 1 .. (history_size - 1) :
                 population_history'[i] = population_history[i - 1]
          /\ \A i \in 0 .. (history_size - 1) :
                 i >= filled' => population_history'[i] = 0]_vars

\* C15 witness: a window of three filled by three pushes of different counts.
C15_Witness ==
    /\ call.op = "check_stability"
    /\ history_size = 3
    /\ filled = 3
    /\ population_history[0] > population_history[1]
    /\ population_history[2] > population_history[0]
    /\ population_history[1] > 0

\* C16: with FADE_DECAY_RATE = 1 a cell that has not been alive for k
\* generations holds max-k, for k = 1, 2, ... one level per generation, is at 0
\* once k reaches FADE_LEVELS-1 and stays there until it is reborn or the grid
\* is reseeded.
C16_UnitDecay ==
    (fade_decay_rate = 1) =>
        \A i \in Cells :
            /\ fade_buffer[i] = max_fade - dead_for[i]
            /\ (pc = "swap") => Nxt[i] = max_fade - dead_for[i]
            /\ (pc \in {"apply", "stable"}) => Cur[i] = max_fade - dead_for[i]

\* C16 witness: next to a live cell, a cell that was alive FADE_LEVELS-1
\* generations ago has gone through the whole trail and has just reached 0.
C16_Witness ==
    /\ pc = "stable"
    /\ fade_decay_rate = 1
    /\ fade_levels = FADE_LEVELS
    /\ \E i \in Cells : Cur[i] = max_fade
    /\ \E i \in Cells : dead_for[i] = max_fade /\ Cur[i] = 0 /\ Nxt[i] = 1

\* C17: the count that handle_stable_state gets from count_population is the
\* number of cells of the current bitmap (the generation just computed and
\* swapped in) at FADE_LEVELS-1, which is the population of the classic Life
\* run; fading cells and next_bitmap do not count; it lies in 0 .. width*height
\* and is 0 on an all-zero bitmap; counting changes no buffer.
C17_CountPopulation ==
    [][HandleStep =>
          /\ call'.arg = Cardinality({i \in Cells : Cur[i] = fade_levels - 1})
          /\ call'.arg = Cardinality(conway)
          /\ call'.arg \in 0 .. (width * height)
          /\ (\A i \in Cells : Cur[i] = 0) => call'.arg = 0
          /\ ~reseeded' => (population_history'[0] = call'.arg /\ grid' = grid)]_vars

\* C17 witness: a count taken after a swap on a bitmap that has live cells,
\* fading cells and dark cells, while next_bitmap holds another population.
C17_Witness ==
    /\ call.op = "handle_stable_state"
    /\ ~reseeded
    /\ fade_levels = FADE_LEVELS
    /\ call.arg >= 2
    /\ \E i \in Cells : Cur[i] > 0 /\ Cur[i] < max_fade
    /\ \E i \in Cells : Cur[i] = 0
    /\ Cardinality(AliveCells(Nxt)) # call.arg

\* The points between generations: after a randomize and after a swap.
GenerationBoundary == pc \in {"apply", "stable"}

\* C18: at every generation boundary (after the first randomize, after each
\* generation and swap, after each reseed) fade_buffer equals current_bitmap
\* cell by cell; so a generation writes to next_bitmap and fade_buffer values
\* that depend on current_bitmap only, whatever next_bitmap held before.
C18_FadeMirrorsCurrent ==
    [][/\ GenerationBoundary' => \A i \in Cells : fade_buffer'[i] = Cur'[i]
       /\ (pc = "apply" /\ pc' = "swap") =>
             \A i \in Cells :
                 /\ Nxt'[i] = IF AliveNext(Cur, i)
                              THEN max_fade
                              ELSE Max(0, Cur[i] - fade_decay_rate)
                 /\ fade_buffer'[i] = Nxt'[i]]_vars

\* C18 witness: the boundary after a reseed, where next_bitmap still holds
\* the last generation of the run before: a stale live cell under a dark one
\* and a stale dark cell under a live one.
C18_Witness ==
    /\ pc = "apply"
    /\ reseeded
    /\ \E i \in Cells : Cur[i] = 0 /\ fade_buffer[i] = 0 /\ Nxt[i] = max_fade
    /\ \E i \in Cells : Cur[i] = max_fade /\ fade_buffer[i] = max_fade
                          /\ Nxt[i] = 0

\* C19: whenever handle_stable_state has returned, stable_count is in
\* 0 .. STABLE_GENERATIONS-1; and a call that reseeds is at least the
\* STABLE_GENERATIONS-th call since the previous reseed (or since the start).
C19_StableCountBound ==
    [][HandleStep =>
          /\ stable_count' \in 0 .. (STABLE_GENERATIONS - 1)
          /\ reseeded' =>
                /\ streak' >= STABLE_GENERATIONS
                /\ generation + 1 >= STABLE_GENERATIONS
                /\ ~reseeded]_vars

\* C19 witness: the tenth call of a run has returned with the counter at its
\* largest value, one short of the threshold, after nine True verdicts.
C19_Witness ==
    /\ call.op = "handle_stable_state"
    /\ ~reseeded
    /\ stable_count = STABLE_GENERATIONS - 1
    /\ streak = STABLE_GENERATIONS - 1
    /\ generation = STABLE_GENERATIONS

\* C20: with HISTORY_SIZE = 3, the first stability check on a window of
\* placeholder zeros (at the start and after each reset) is true exactly if
\* the population p it is given is at most 2.
C20_FirstCheck ==
    [][((HandleStep \/ CheckStep) /\ history_size = 3 /\ filled = 0) =>
          /\ \A i \in 0 .. 2 : population_history[i] = 0
          /\ verdict' \in {"True", "False"}
          /\ (verdict' = "True") <=> (call'.arg <= 2)]_vars

\* C20 witness: the first check after a reseed has returned true on a
\* population of 2, with the two placeholder zeros behind it in the window.
C20_Witness ==
    /\ call.op = "handle_stable_state"
    /\ history_size = 3
    /\ filled = 1
    /\ generation = 2
    /\ call.arg = 2
    /\ verdict = "True"
    /\ stable_count = 1
    /\ population_history[1] = 0
    /\ population_history[2] = 0

====
